---- MODULE Spec2Model ----
(***************************************************************************)
(* Model of albumy/services/llm_service.py: the caption generation         *)
(* pipeline (get_llm_response, generate_alt_text,                          *)
(* generate_alt_text_from_file, generate_sassy_description_from_file).     *)
(*                                                                         *)
(* A Python str is a sequence of code points.  Image bytes are abstract    *)
(* byte strings of which only the decodability by PIL matters.  The        *)
(* hosted model, the genai client constructor and the file system are the  *)
(* environment: their outcomes are chosen nondeterministically.            *)
(***************************************************************************)
EXTENDS Integers, Sequences, FiniteSets, TLC

(***************************************************************************)
(* Program constants                                                       *)
(***************************************************************************)
\* len(alt_text) > 500
MAX_LEN == 500
\* alt_text[:497]
KEEP_LEN == 497

\* "..."
ELLIPSIS == <<46, 46, 46>>

\* "Image description not available"
ALT_FALLBACK ==
  <<73, 109, 97, 103, 101, 32, 100, 101, 115, 99, 114, 105, 112, 116, 105,
    111, 110, 32, 110, 111, 116, 32, 97, 118, 97, 105, 108, 97, 98, 108, 101>>

\* "Another day, another photo! " followed, in the source file, by the four
\* code points U+00F0 U+0178 U+201C U+00B8.
SASSY_FALLBACK ==
  <<65, 110, 111, 116, 104, 101, 114, 32, 100, 97, 121, 44, 32, 97, 110, 111,
    116, 104, 101, 114, 32, 112, 104, 111, 116, 111, 33, 32,
    240, 376, 8220, 184>>

\* return "" of get_llm_response
EMPTY_STR == <<>>

\* Code points removed by str.strip(): the Unicode whitespace of Python.
WHITESPACE ==
  {9, 10, 11, 12, 13, 28, 29, 30, 31, 32, 133, 160, 5760, 8232, 8233, 8239,
   8287, 12288} \cup (8192..8202)

(***************************************************************************)
(* Bounds of the model                                                     *)
(***************************************************************************)
\* Leading / trailing whitespace of a model text: 0..MaxPad code points.
MaxPad == 1
\* Short model texts have 0..MaxShort non-blank-delimited code points.
MaxShort == 2
\* Long model texts have MAX_LEN - MaxOver .. MAX_LEN + MaxOver code points.
MaxOver == 2

(***************************************************************************)
(* Inputs                                                                  *)
(***************************************************************************)
Threads == {"t1", "t2"}

Ops == {"get_llm_response", "generate_alt_text",
        "generate_alt_text_from_file", "generate_sassy_description_from_file"}

PathOps == {"generate_alt_text_from_file", "generate_sassy_description_from_file"}

\* Byte strings: a well-formed JPEG, bytes PIL cannot identify.
ImageBytes == {"JPEG", "GARBAGE"}

\* Image.open(io.BytesIO(image_data)) succeeds
Decodable(bytes) == bytes = "JPEG"

Paths == {"/nonexistent/file.jpg", "/locked.jpg", "/photo.jpg", "/notes.txt"}

\* The file system: what open(file_path, 'rb') / f.read() meet at a path.
FileSystem ==
  [path \in Paths |->
     CASE path = "/nonexistent/file.jpg" -> [readable |-> FALSE, bytes |-> "GARBAGE"]
       [] path = "/locked.jpg"           -> [readable |-> FALSE, bytes |-> "JPEG"]
       [] path = "/photo.jpg"            -> [readable |-> TRUE,  bytes |-> "JPEG"]
       [] path = "/notes.txt"            -> [readable |-> TRUE,  bytes |-> "GARBAGE"]]

Args(o) == IF o \in PathOps THEN Paths ELSE ImageBytes

\* Values of os.getenv('GEMINI_API_KEY'): None, "", a key the service
\* rejects, a key the service accepts.
ENV_UNSET == "<unset>"
KeyValues == {ENV_UNSET, "", "invalid-key", "valid-key"}

Pad(k) == [i \in 1..k |-> IF i % 2 = 1 THEN 32 ELSE 10]

BodyChar(i, n) ==
  IF i = 1 \/ i = n THEN 65
  ELSE IF i % 5 = 0 THEN 32
  ELSE 97 + (i % 26)

Body(n) == [i \in 1..n |-> BodyChar(i, n)]

BodyLens == (0..MaxShort) \cup ((MAX_LEN - MaxOver)..(MAX_LEN + MaxOver))

\* The texts the hosted model may answer with.
Texts == {Pad(l) \o Body(n) \o Pad(t) : l \in 0..MaxPad, n \in BodyLens, t \in 0..MaxPad}

NoResponse == [has_text |-> FALSE, text |-> <<>>]

\* What gemini_client.models.generate_content does: raises, answers with a
\* response whose .text is None, or answers with a text.
Behaviours ==
  {[kind |-> "raise", text |-> <<>>], [kind |-> "notext", text |-> <<>>]}
    \cup {[kind |-> "text", text |-> t] : t \in Texts}

(***************************************************************************)
(* Pure functions                                                          *)
(***************************************************************************)
RECURSIVE LStrip(_)
LStrip(s) ==
  IF s = <<>> THEN s
  ELSE IF Head(s) \in WHITESPACE THEN LStrip(Tail(s)) ELSE s

RECURSIVE RStrip(_)
RStrip(s) ==
  IF s = <<>> THEN s
  ELSE IF s[Len(s)] \in WHITESPACE THEN RStrip(SubSeq(s, 1, Len(s) - 1)) ELSE s

StripLeftOnly(s) == LStrip(s)

\* str.strip()
Strip(s) == RStrip(LStrip(s))

TruncateNoCap(s) == s

TruncateKeep500(s) == IF Len(s) > MAX_LEN THEN SubSeq(s, 1, MAX_LEN) \o ELLIPSIS ELSE s

TruncateAlways(s) ==
  SubSeq(s, 1, IF Len(s) > KEEP_LEN THEN KEEP_LEN ELSE Len(s)) \o ELLIPSIS

\* if len(alt_text) > 500: alt_text = alt_text[:497] + "..."
Truncate(s) == IF Len(s) > MAX_LEN THEN SubSeq(s, 1, KEEP_LEN) \o ELLIPSIS ELSE s

\* The string an operation returns when no client is available.
NoClientReturn(o) ==
  CASE o = "get_llm_response"                     -> EMPTY_STR
    [] o = "generate_alt_text"                    -> ALT_FALLBACK
    [] o = "generate_alt_text_from_file"          -> ALT_FALLBACK
    [] o = "generate_sassy_description_from_file" -> SASSY_FALLBACK

OrFallbackNone(o, s) == s

\* return alt_text if alt_text else "<fallback>"
OrFallback(o, s) ==
  CASE o = "get_llm_response"                     -> s
    [] o = "generate_alt_text"                    -> IF s # <<>> THEN s ELSE ALT_FALLBACK
    [] o = "generate_alt_text_from_file"          -> IF s # <<>> THEN s ELSE ALT_FALLBACK
    [] o = "generate_sassy_description_from_file" -> IF s # <<>> THEN s ELSE SASSY_FALLBACK

PostProcessTextUnstripped(o, text) ==
  IF o = "get_llm_response" THEN text
  ELSE OrFallback(o, Truncate(Strip(text)))

PostProcessTextCapAll(o, text) == OrFallback(o, Truncate(Strip(text)))

\* The post-processing of the model text.
PostProcessText(o, text) ==
  IF o = "get_llm_response" THEN Strip(text)
  ELSE OrFallback(o, Truncate(Strip(text)))

ExceptHandlerPropagate(o) == [outcome |-> "raised", value |-> <<>>]

ExceptHandlerEmpty(o) == [outcome |-> "returned", value |-> EMPTY_STR]

\* except Exception as e: logger.error(...); return "<fallback>"
ExceptHandler(o) ==
  [outcome |-> "returned",
   value   |-> CASE o = "get_llm_response"                     -> EMPTY_STR
                 [] o = "generate_alt_text"                    -> ALT_FALLBACK
                 [] o = "generate_alt_text_from_file"          -> ALT_FALLBACK
                 [] o = "generate_sassy_description_from_file" -> SASSY_FALLBACK]

NoClient == [ok |-> FALSE, api_key |-> ENV_UNSET]

get_gemini_client_any(key, ctor_raises) ==
  IF ctor_raises THEN NoClient ELSE [ok |-> TRUE, api_key |-> key]

\* _get_gemini_client(): None when the key is unset or empty, None when
\* genai.Client raises, the client otherwise.
get_gemini_client(key, ctor_raises) ==
  IF key = ENV_UNSET \/ key = "" THEN NoClient
  ELSE IF ctor_raises THEN NoClient
  ELSE [ok |-> TRUE, api_key |-> key]

\* with open(file_path, 'rb') as f: image_data = f.read()
OpenFile(path) ==
  IF FileSystem[path].readable
    THEN [ok |-> TRUE, bytes |-> FileSystem[path].bytes]
    ELSE [ok |-> FALSE, bytes |-> "GARBAGE"]

\* The hosted model rejects a request made with a key it does not accept.
ServiceAnswer(cl, b) ==
  IF cl.api_key = "valid-key" THEN b ELSE [kind |-> "raise", text |-> <<>>]

(***************************************************************************)
(* State                                                                   *)
(***************************************************************************)
VARIABLES
  env,         \* os.environ['GEMINI_API_KEY']
  pc,          \* position of each invocation
  op,          \* the operation invoked
  arg,         \* its argument: image bytes or a file path
  client,      \* local gemini_client
  image_data,  \* local image_data
  response,    \* local response
  result,      \* the value handed to the caller
  outcome,     \* "none", "returned" or "raised"
  requests,    \* requests sent to the model during the invocation
  why          \* the path the invocation took

\* The state of the caption service.
svars == <<env, pc, op, arg, client, image_data, response, result, outcome, requests, why>>

VARIABLES
  key_reads,   \* os.getenv('GEMINI_API_KEY') calls made during the invocation
  last_key,    \* history: the key of the client built most recently
  earlier      \* history: what the invocations that already returned did

hvars == <<key_reads, last_key, earlier>>

VARIABLES
  photos,      \* the photo table: Photo.query.all()
  up_pc,       \* position of the upload handler
  up_gen,      \* what the handler's call of generate_alt_text_from_file gave
  up_flash,    \* the message the handler flashes
  up_before    \* number of photo records when the upload began

uvars == <<photos, up_pc, up_gen, up_flash, up_before>>

VARIABLES
  cp_pc,                \* position of check_photos
  cp_i,                 \* index of the photo the loop is at
  missing_description,  \* the four lists of check_photos
  missing_alt_text,
  default_alt_text,
  complete_photos

cvars == <<cp_pc, cp_i, missing_description, missing_alt_text, default_alt_text, complete_photos>>

vars == <<svars, hvars, uvars, cvars>>

\* No invocation has been made yet.
HistoryInit ==
  /\ key_reads = [p \in Threads |-> 0]
  /\ last_key = ENV_UNSET
  /\ earlier = [succeeded |-> FALSE, fell_back |-> FALSE]

\* No upload is being handled and the photo table is empty.
UploadIdle ==
  /\ photos = <<>>
  /\ up_pc = "idle"
  /\ up_gen = [kind |-> "none", value |-> <<>>]
  /\ up_flash = "none"
  /\ up_before = 0

\* check_photos is not running.
CheckIdle ==
  /\ cp_pc = "idle"
  /\ cp_i = 0
  /\ missing_description = <<>>
  /\ missing_alt_text = <<>>
  /\ default_alt_text = <<>>
  /\ complete_photos = <<>>

\* No invocation of the caption service is running.
ServiceIdle ==
  /\ pc = [p \in Threads |-> "idle"]
  /\ op = [p \in Threads |-> "generate_alt_text"]
  /\ arg = [p \in Threads |-> "JPEG"]
  /\ client = [p \in Threads |-> NoClient]
  /\ image_data = [p \in Threads |-> "GARBAGE"]
  /\ response = [p \in Threads |-> NoResponse]
  /\ result = [p \in Threads |-> <<>>]
  /\ outcome = [p \in Threads |-> "none"]
  /\ requests = [p \in Threads |-> 0]
  /\ why = [p \in Threads |-> "none"]

Init ==
  /\ env \in KeyValues
  /\ pc = [p \in Threads |-> "idle"]
  /\ op = [p \in Threads |-> "generate_alt_text"]
  /\ arg = [p \in Threads |-> "JPEG"]
  /\ client = [p \in Threads |-> NoClient]
  /\ image_data = [p \in Threads |-> "GARBAGE"]
  /\ response = [p \in Threads |-> NoResponse]
  /\ result = [p \in Threads |-> <<>>]
  /\ outcome = [p \in Threads |-> "none"]
  /\ requests = [p \in Threads |-> 0]
  /\ why = [p \in Threads |-> "none"]
  /\ HistoryInit
  /\ UploadIdle
  /\ CheckIdle

(***************************************************************************)
(* Operations, one action per step of an invocation                        *)
(***************************************************************************)
\* The invocation of p ends: the value (or the exception) reaches the caller.
Finish(p, how, value, reason) ==
  /\ pc' = [pc EXCEPT ![p] = "done"]
  /\ outcome' = [outcome EXCEPT ![p] = how]
  /\ result' = [result EXCEPT ![p] = value]
  /\ why' = [why EXCEPT ![p] = reason]

\* An exception raised inside the try block of the running operation.
Raise(p, reason) ==
  LET h == ExceptHandler(op[p]) IN Finish(p, h.outcome, h.value, reason)

\* A caller invokes operation o with argument a.
Invoke(p, o, a) ==
  /\ pc[p] = "idle"
  /\ op' = [op EXCEPT ![p] = o]
  /\ arg' = [arg EXCEPT ![p] = a]
  /\ image_data' = [image_data EXCEPT ![p] = IF o \in PathOps THEN "GARBAGE" ELSE a]
  /\ client' = [client EXCEPT ![p] = NoClient]
  /\ response' = [response EXCEPT ![p] = NoResponse]
  /\ result' = [result EXCEPT ![p] = <<>>]
  /\ outcome' = [outcome EXCEPT ![p] = "none"]
  /\ requests' = [requests EXCEPT ![p] = 0]
  /\ why' = [why EXCEPT ![p] = "none"]
  /\ pc' = [pc EXCEPT ![p] = IF o = "generate_alt_text_from_file" THEN "open" ELSE "client"]
  /\ UNCHANGED env

\* The operations are synchronous: a caller starts one when none is running.
Call(p, o, a) ==
  /\ \A q \in Threads : pc[q] = "idle"
  /\ Invoke(p, o, a)

GetClientCached(p, ctor_raises) ==
  /\ pc[p] = "client"
  /\ LET cl == IF last_key # ENV_UNSET
                 THEN [ok |-> TRUE, api_key |-> last_key]
                 ELSE get_gemini_client(env, ctor_raises) IN
       IF cl.ok
         THEN /\ client' = [client EXCEPT ![p] = cl]
              /\ pc' = [pc EXCEPT ![p] =
                          IF op[p] = "generate_sassy_description_from_file"
                            THEN "open" ELSE "decode"]
              /\ UNCHANGED <<result, outcome, why>>
         ELSE /\ Finish(p, "returned", NoClientReturn(op[p]),
                        IF env = ENV_UNSET \/ env = "" THEN "no_key" ELSE "client_error")
              /\ UNCHANGED client
  /\ UNCHANGED <<env, op, arg, image_data, response, requests>>

\* gemini_client = _get_gemini_client(); if not gemini_client: return ...
GetClient(p, ctor_raises) ==
  /\ pc[p] = "client"
  /\ LET cl == get_gemini_client(env, ctor_raises) IN
       IF cl.ok
         THEN /\ client' = [client EXCEPT ![p] = cl]
              /\ pc' = [pc EXCEPT ![p] =
                          IF op[p] = "generate_sassy_description_from_file"
                            THEN "open" ELSE "decode"]
              /\ UNCHANGED <<result, outcome, why>>
         ELSE /\ Finish(p, "returned", NoClientReturn(op[p]),
                        IF env = ENV_UNSET \/ env = "" THEN "no_key" ELSE "client_error")
              /\ UNCHANGED client
  /\ UNCHANGED <<env, op, arg, image_data, response, requests>>

ReadFileUncaught(p) ==
  /\ pc[p] = "open"
  /\ LET f == OpenFile(arg[p]) IN
       IF f.ok
         THEN /\ image_data' = [image_data EXCEPT ![p] = f.bytes]
              /\ pc' = [pc EXCEPT ![p] =
                          IF op[p] = "generate_alt_text_from_file"
                            THEN "client" ELSE "decode"]
              /\ UNCHANGED <<result, outcome, why>>
         ELSE /\ Finish(p, "raised", <<>>, "file_error")
              /\ UNCHANGED image_data
  /\ UNCHANGED <<env, op, arg, client, response, requests>>

\* with open(file_path, 'rb') as f: image_data = f.read()
ReadFile(p) ==
  /\ pc[p] = "open"
  /\ LET f == OpenFile(arg[p]) IN
       IF f.ok
         THEN /\ image_data' = [image_data EXCEPT ![p] = f.bytes]
              /\ pc' = [pc EXCEPT ![p] =
                          IF op[p] = "generate_alt_text_from_file"
                            THEN "client" ELSE "decode"]
              /\ UNCHANGED <<result, outcome, why>>
         ELSE /\ Raise(p, "file_error")
              /\ UNCHANGED image_data
  /\ UNCHANGED <<env, op, arg, client, response, requests>>

\* image = Image.open(io.BytesIO(image_data))
ImageOpen(p) ==
  /\ pc[p] = "decode"
  /\ IF Decodable(image_data[p])
       THEN /\ pc' = [pc EXCEPT ![p] = "request"]
            /\ UNCHANGED <<result, outcome, why>>
       ELSE Raise(p, "decode_error")
  /\ UNCHANGED <<env, op, arg, client, image_data, response, requests>>

GenerateContentRetry(p, b) ==
  /\ pc[p] = "request"
  /\ LET ans == ServiceAnswer(client[p], b) IN
       IF ans.kind = "raise"
         THEN /\ requests' = [requests EXCEPT ![p] = @ + 2]
              /\ Raise(p, "model_error")
              /\ UNCHANGED response
         ELSE /\ requests' = [requests EXCEPT ![p] = @ + 1]
              /\ response' = [response EXCEPT ![p] =
                                [has_text |-> ans.kind = "text", text |-> ans.text]]
              /\ pc' = [pc EXCEPT ![p] = "post"]
              /\ UNCHANGED <<result, outcome, why>>
  /\ UNCHANGED <<env, op, arg, client, image_data>>

GenerateContentShared(p, b) ==
  /\ pc[p] = "request"
  /\ requests' = [requests EXCEPT ![p] = @ + 1]
  /\ LET ans == ServiceAnswer(client[p], b) IN
       IF ans.kind = "raise"
         THEN /\ Raise(p, "model_error")
              /\ UNCHANGED response
         ELSE /\ response' = [q \in Threads |->
                                [has_text |-> ans.kind = "text", text |-> ans.text]]
              /\ pc' = [pc EXCEPT ![p] = "post"]
              /\ UNCHANGED <<result, outcome, why>>
  /\ UNCHANGED <<env, op, arg, client, image_data>>

\* response = gemini_client.models.generate_content(model=..., contents=[...])
GenerateContent(p, b) ==
  /\ pc[p] = "request"
  /\ requests' = [requests EXCEPT ![p] = @ + 1]
  /\ LET ans == ServiceAnswer(client[p], b) IN
       IF ans.kind = "raise"
         THEN /\ Raise(p, "model_error")
              /\ UNCHANGED response
         ELSE /\ response' = [response EXCEPT ![p] =
                                [has_text |-> ans.kind = "text", text |-> ans.text]]
              /\ pc' = [pc EXCEPT ![p] = "post"]
              /\ UNCHANGED <<result, outcome, why>>
  /\ UNCHANGED <<env, op, arg, client, image_data>>

\* response.text.strip(), the length cap, the fallback for an empty text
PostProcess(p) ==
  /\ pc[p] = "post"
  /\ IF response[p].has_text
       THEN Finish(p, "returned", PostProcessText(op[p], response[p].text), "ok")
       ELSE Raise(p, "no_text")
  /\ UNCHANGED <<env, op, arg, client, image_data, response, requests>>

\* The caller has taken the result; the locals of the invocation are gone.
Return(p) ==
  /\ pc[p] = "done"
  /\ pc' = [pc EXCEPT ![p] = "idle"]
  /\ op' = [op EXCEPT ![p] = "generate_alt_text"]
  /\ arg' = [arg EXCEPT ![p] = "JPEG"]
  /\ client' = [client EXCEPT ![p] = NoClient]
  /\ image_data' = [image_data EXCEPT ![p] = "GARBAGE"]
  /\ response' = [response EXCEPT ![p] = NoResponse]
  /\ result' = [result EXCEPT ![p] = <<>>]
  /\ outcome' = [outcome EXCEPT ![p] = "none"]
  /\ requests' = [requests EXCEPT ![p] = 0]
  /\ why' = [why EXCEPT ![p] = "none"]
  /\ UNCHANGED env

\* The process environment changes between invocations.
SetEnv(k) ==
  /\ \A q \in Threads : pc[q] = "idle"
  /\ k # env
  /\ env' = k
  /\ UNCHANGED <<pc, op, arg, client, image_data, response, result, outcome, requests, why>>

\* What the history variables record of a step of the service.
StartsCall(p) ==
  /\ key_reads' = [key_reads EXCEPT ![p] = 0]
  /\ UNCHANGED <<last_key, earlier>>

ReadsKey(p) ==
  /\ key_reads' = [key_reads EXCEPT ![p] = @ + 1]
  /\ last_key' = IF client'[p].ok THEN client'[p].api_key ELSE last_key
  /\ UNCHANGED earlier

EndsCall(p) ==
  /\ earlier' = [succeeded |-> earlier.succeeded \/ why[p] = "ok",
                 fell_back |-> earlier.fell_back \/ why[p] = "no_key"]
  /\ UNCHANGED <<key_reads, last_key>>

Next ==
  \/ \E p \in Threads, o \in Ops : \E a \in Args(o) :
       Call(p, o, a) /\ StartsCall(p) /\ UNCHANGED <<uvars, cvars>>
  \/ \E p \in Threads, c \in BOOLEAN :
       GetClient(p, c) /\ ReadsKey(p) /\ UNCHANGED <<uvars, cvars>>
  \/ \E p \in Threads : ReadFile(p) /\ UNCHANGED <<hvars, uvars, cvars>>
  \/ \E p \in Threads : ImageOpen(p) /\ UNCHANGED <<hvars, uvars, cvars>>
  \/ \E p \in Threads, b \in Behaviours :
       GenerateContent(p, b) /\ UNCHANGED <<hvars, uvars, cvars>>
  \/ \E p \in Threads : PostProcess(p) /\ UNCHANGED <<hvars, uvars, cvars>>
  \/ \E p \in Threads : Return(p) /\ EndsCall(p) /\ UNCHANGED <<uvars, cvars>>
  \/ \E k \in KeyValues : SetEnv(k) /\ UNCHANGED <<hvars, uvars, cvars>>

Spec == Init /\ [][Next]_vars

TypeOK ==
  /\ env \in KeyValues
  /\ \A p \in Threads :
       /\ pc[p] \in {"idle", "client", "open", "decode", "request", "post", "done"}
       /\ op[p] \in Ops
       /\ outcome[p] \in {"none", "returned", "raised"}
       /\ requests[p] \in 0..2

(***************************************************************************)
(* Properties                                                              *)
(***************************************************************************)
Done(p) == pc[p] = "done"

GenerationOps == Ops \ {"get_llm_response"}

\* The model texts with the text each of them leaves once its leading and
\* trailing whitespace is removed (the Body it was built around).
TextTable ==
  {[text |-> Pad(l) \o Body(n) \o Pad(t), trimmed |-> Body(n)] :
     l \in 0..MaxPad, n \in BodyLens, t \in 0..MaxPad}

Trimmed(text) == (CHOOSE r \in TextTable : r.text = text).trimmed

\* The documented fallback of each operation.
DocumentedFallback(o) ==
  IF o = "get_llm_response" THEN <<>>
  ELSE IF o = "generate_sassy_description_from_file" THEN SASSY_FALLBACK
  ELSE ALT_FALLBACK

KeyAbsent == env \in {ENV_UNSET, ""}

KeyPresent == env \in {"invalid-key", "valid-key"}

\* C1: whatever the input, the credential and the behaviour of the model,
\* generate_alt_text, generate_alt_text_from_file and
\* generate_sassy_description_from_file return a string of 1 to 500
\* characters.
C1_LengthBounds ==
  \A p \in Threads :
    (Done(p) /\ op[p] \in GenerationOps) =>
      /\ outcome[p] = "returned"
      /\ Len(result[p]) >= 1
      /\ Len(result[p]) <= 500

\* A generation operation has capped a model text of more than 500 characters.
C1_Witness ==
  \E p \in Threads :
    /\ Done(p) /\ op[p] \in GenerationOps /\ why[p] = "ok"
    /\ Len(Trimmed(response[p].text)) > 500
    /\ Len(result[p]) = 500

\* C2: no operation ends in an error visible to its caller; after each kind
\* of failure (credential missing, client construction fails, image not
\* decodable, model call raises, response without text, file unreadable)
\* the operation returns a value.
C2_NeverRaises ==
  \A p \in Threads :
    Done(p) =>
      /\ outcome[p] = "returned"
      /\ why[p] \in {"ok", "no_key", "client_error", "file_error",
                     "decode_error", "model_error", "no_text"}

\* An operation has returned after the model call raised.
C2_Witness ==
  \E p \in Threads :
    /\ Done(p) /\ why[p] = "model_error" /\ env = "valid-key"
    /\ outcome[p] = "returned"

\* C3: with the API key absent from the environment every operation returns
\* its documented fallback ("" for get_llm_response) and sends no request
\* to the model, whatever the image bytes or the path.
C3_NoKeyFallback ==
  \A p \in Threads :
    (Done(p) /\ KeyAbsent) =>
      /\ outcome[p] = "returned"
      /\ result[p] = DocumentedFallback(op[p])
      /\ requests[p] = 0

\* generate_alt_text_from_file has read a good image and found no key.
C3_Witness ==
  \E p \in Threads :
    /\ Done(p) /\ env = ENV_UNSET /\ why[p] = "no_key"
    /\ op[p] = "generate_alt_text_from_file" /\ arg[p] = "/photo.jpg"
    /\ result[p] = ALT_FALLBACK /\ requests[p] = 0

\* C4 as stated: with a key that is present but rejected by the model
\* service, each operation returns its fallback and no request to the model
\* is attempted.
C4_Original ==
  \A p \in Threads :
    (Done(p) /\ env = "invalid-key") =>
      /\ result[p] = DocumentedFallback(op[p])
      /\ requests[p] = 0

\* C4 amended: with a key that is present but rejected by the model service,
\* each operation returns its fallback; no request is sent when the client
\* could not be constructed, the file could not be read or the image could
\* not be decoded, and exactly one request is sent (and rejected) otherwise.
C4_InvalidKeyFallback ==
  \A p \in Threads :
    (Done(p) /\ env = "invalid-key") =>
      /\ outcome[p] = "returned"
      /\ result[p] = DocumentedFallback(op[p])
      /\ why[p] \in {"client_error", "file_error", "decode_error", "model_error"}
      /\ requests[p] = IF why[p] = "model_error" THEN 1 ELSE 0

\* generate_alt_text has sent a request with the rejected key and fallen back.
C4_Witness ==
  \E p \in Threads :
    /\ Done(p) /\ env = "invalid-key" /\ op[p] = "generate_alt_text"
    /\ requests[p] = 1 /\ result[p] = ALT_FALLBACK

\* C5: with a credential present, a request that fails (image not decodable,
\* model call raises, response without text) makes the operation return the
\* fallback of its no-credential case.
C5_FailureFallback ==
  \A p \in Threads :
    (/\ Done(p) /\ KeyPresent /\ op[p] \in GenerationOps
     /\ why[p] \in {"decode_error", "model_error", "no_text"}) =>
      /\ outcome[p] = "returned"
      /\ result[p] = IF op[p] = "generate_sassy_description_from_file"
                       THEN SASSY_FALLBACK ELSE ALT_FALLBACK

\* The sassy operation got a response without text from a valid key.
C5_Witness ==
  \E p \in Threads :
    /\ Done(p) /\ env = "valid-key" /\ why[p] = "no_text"
    /\ op[p] = "generate_sassy_description_from_file"
    /\ requests[p] = 1 /\ result[p] = SASSY_FALLBACK

\* C6: for generate_alt_text and generate_sassy_description_from_file a
\* trimmed model text of more than 500 characters gives its first 497
\* characters followed by "...", 500 characters in all; a trimmed text of
\* exactly 500 characters is returned whole.
C6_Truncation ==
  \A p \in Threads :
    (/\ Done(p) /\ why[p] = "ok"
     /\ op[p] \in {"generate_alt_text", "generate_sassy_description_from_file"}) =>
      LET t == Trimmed(response[p].text) IN
        /\ Len(t) > 500 =>
             /\ result[p] = SubSeq(t, 1, 497) \o <<46, 46, 46>>
             /\ Len(result[p]) = 500
        /\ Len(t) = 500 => result[p] = t

\* A padded text of 501 characters has been cut by generate_alt_text.
C6_Witness ==
  \E p \in Threads :
    /\ Done(p) /\ why[p] = "ok" /\ op[p] = "generate_alt_text"
    /\ response[p].text = Pad(1) \o Body(501) \o Pad(1)
    /\ Len(result[p]) = 500
    /\ result[p][498] = 46 /\ result[p][497] = Body(501)[497]

\* C7: with a credential, a decodable image and a model text whose trimmed
\* form has 1 to 500 characters, generate_alt_text and
\* generate_sassy_description_from_file return exactly the trimmed text.
C7_ShortTextUnchanged ==
  \A p \in Threads :
    (/\ Done(p) /\ why[p] = "ok"
     /\ op[p] \in {"generate_alt_text", "generate_sassy_description_from_file"}
     /\ Len(Trimmed(response[p].text)) >= 1
     /\ Len(Trimmed(response[p].text)) <= 500) =>
      result[p] = Trimmed(response[p].text)

\* A two-character text wrapped in whitespace came back without the wrapping.
C7_Witness ==
  \E p \in Threads :
    /\ Done(p) /\ why[p] = "ok" /\ op[p] = "generate_sassy_description_from_file"
    /\ response[p].text = Pad(1) \o Body(2) \o Pad(1)
    /\ result[p] = Body(2)

\* C8: a model text that is empty or only whitespace makes generate_alt_text
\* and generate_alt_text_from_file return "Image description not available"
\* and generate_sassy_description_from_file its own fallback; none of them
\* ever returns an empty or whitespace-only string.
C8_BlankTextFallback ==
  \A p \in Threads :
    (Done(p) /\ op[p] \in GenerationOps) =>
      /\ (why[p] = "ok" /\ \A i \in 1..Len(response[p].text) :
                              response[p].text[i] \in WHITESPACE) =>
            result[p] = IF op[p] = "generate_sassy_description_from_file"
                          THEN SASSY_FALLBACK ELSE ALT_FALLBACK
      /\ \E i \in 1..Len(result[p]) : result[p][i] \notin WHITESPACE

\* The sassy operation was answered with a single blank.
C8_Witness ==
  \E p \in Threads :
    /\ Done(p) /\ why[p] = "ok" /\ op[p] = "generate_sassy_description_from_file"
    /\ response[p].text = Pad(1)
    /\ result[p] = SASSY_FALLBACK

\* C9: generate_alt_text_from_file on a path that does not exist or cannot
\* be read returns "Image description not available" without raising and
\* without a request to the model, with or without a credential.
C9_UnreadableFile ==
  \A p \in Threads :
    (/\ Done(p) /\ op[p] = "generate_alt_text_from_file"
     /\ ~FileSystem[arg[p]].readable) =>
      /\ outcome[p] = "returned"
      /\ result[p] = ALT_FALLBACK
      /\ requests[p] = 0

\* The missing path was tried while a valid key was configured.
C9_Witness ==
  \E p \in Threads :
    /\ Done(p) /\ op[p] = "generate_alt_text_from_file"
    /\ arg[p] = "/nonexistent/file.jpg" /\ env = "valid-key"
    /\ why[p] = "file_error" /\ result[p] = ALT_FALLBACK

\* "Another day, another photo! " followed by the camera glyph U+1F4F8.
CAMERA_CAPTION ==
  <<65, 110, 111, 116, 104, 101, 114, 32, 100, 97, 121, 44, 32, 97, 110, 111,
    116, 104, 101, 114, 32, 112, 104, 111, 116, 111, 33, 32, 128248>>

\* C10: generate_sassy_description_from_file on a nonexistent path returns
\* exactly "Another day, another photo! " followed by the camera glyph, with
\* or without a credential, and sends no request to the model.
C10_SassyMissingFile ==
  \A p \in Threads :
    (/\ Done(p) /\ op[p] = "generate_sassy_description_from_file"
     /\ arg[p] = "/nonexistent/file.jpg") =>
      /\ outcome[p] = "returned"
      /\ result[p] = CAMERA_CAPTION
      /\ requests[p] = 0

\* C11: an invocation sends at most one request to the model: exactly one
\* when a client was built, the file (if any) read and the image decoded,
\* none when one of these steps failed; a failed request is not repeated.
C11_AtMostOneRequest ==
  \A p \in Threads :
    /\ requests[p] <= 1
    /\ pc[p] \in {"client", "open", "decode", "request"} => requests[p] = 0
    /\ pc[p] = "post" => requests[p] = 1
    /\ Done(p) =>
         requests[p] =
           IF why[p] \in {"no_key", "client_error", "file_error", "decode_error"}
             THEN 0 ELSE 1

\* The model call of the sassy operation raised and the call ended there.
C11_Witness ==
  \E p \in Threads :
    /\ Done(p) /\ why[p] = "model_error" /\ env = "valid-key"
    /\ op[p] = "generate_sassy_description_from_file" /\ arg[p] = "/photo.jpg"
    /\ requests[p] = 1 /\ result[p] = SASSY_FALLBACK

\* C12: get_llm_response returns the model text without its leading and
\* trailing whitespace when the call succeeds and the empty string after
\* every failure, never a fallback sentence; no other operation returns the
\* empty string.
C12_RawResponse ==
  \A p \in Threads :
    Done(p) =>
      /\ (op[p] = "get_llm_response" /\ why[p] = "ok") =>
           result[p] = Trimmed(response[p].text)
      /\ (op[p] = "get_llm_response" /\ why[p] # "ok") =>
           /\ why[p] \in {"no_key", "client_error", "decode_error",
                          "model_error", "no_text"}
           /\ result[p] = <<>>
      /\ op[p] # "get_llm_response" => result[p] # <<>>

\* get_llm_response has removed the whitespace around a two-character text.
C12_Witness ==
  \E p \in Threads :
    /\ Done(p) /\ op[p] = "get_llm_response" /\ why[p] = "ok"
    /\ response[p].text = Pad(1) \o Body(2) \o Pad(1)
    /\ result[p] = Body(2)

\* C13 as stated: the caption returned for any variant, the one served by
\* get_llm_response included, never exceeds 500 characters.
C13_Original ==
  \A p \in Threads : Done(p) => Len(result[p]) <= 500

\* C13 amended: the captions of the three generation operations never exceed
\* 500 characters; get_llm_response applies no cap and returns the whole
\* trimmed model text, however long.
C13_CapExceptRaw ==
  \A p \in Threads :
    Done(p) =>
      /\ op[p] \in GenerationOps => Len(result[p]) <= 500
      /\ (op[p] = "get_llm_response" /\ why[p] = "ok") =>
           Len(result[p]) = Len(Trimmed(response[p].text))

\* get_llm_response has returned a text of more than 500 characters.
C13_Witness ==
  \E p \in Threads :
    /\ Done(p) /\ op[p] = "get_llm_response" /\ why[p] = "ok"
    /\ Len(result[p]) > 500

\* C17: the post-processing (trim, cap at 500 with "...", fallback for an
\* empty text) leaves every string it has produced unchanged, truncated
\* results and both fallback constants included.
C17_Idempotent ==
  \A p \in Threads :
    (Done(p) /\ op[p] \in GenerationOps) =>
      /\ \A o \in GenerationOps : PostProcessText(o, result[p]) = result[p]
      /\ PostProcessText(op[p], ALT_FALLBACK) = ALT_FALLBACK
      /\ PostProcessText(op[p], SASSY_FALLBACK) = SASSY_FALLBACK

\* A result cut to 500 characters has been produced.
C17_Witness ==
  \E p \in Threads :
    /\ Done(p) /\ op[p] = "generate_alt_text" /\ why[p] = "ok"
    /\ Len(Trimmed(response[p].text)) > 500
    /\ result[p] = SubSeq(Trimmed(response[p].text), 1, 497) \o <<46, 46, 46>>

\* C16 as stated: every invocation reads the credential exactly once and
\* nothing is remembered between invocations: with the key absent the call
\* falls back without a request, with a valid key it uses the model,
\* whatever earlier calls did.
C16_Original ==
  \A p \in Threads :
    Done(p) =>
      /\ key_reads[p] = 1
      /\ KeyAbsent => (requests[p] = 0 /\ result[p] = DocumentedFallback(op[p]))
      /\ (env = "valid-key" /\ why[p] \notin {"client_error", "file_error", "decode_error"}) =>
           requests[p] = 1

\* C16 amended: an invocation reads the credential at most once: exactly
\* once, except that generate_alt_text_from_file never reads it when its
\* file cannot be read.  Nothing is remembered between invocations: with
\* the key absent the call falls back without a request even after an
\* earlier success, and with a valid key, a built client, a readable file
\* and a decodable image it sends its request even after an earlier fallback.
C16_KeyReadPerCall ==
  \A p \in Threads :
    /\ key_reads[p] <= 1
    /\ Done(p) =>
         /\ key_reads[p] =
              IF op[p] = "generate_alt_text_from_file" /\ ~FileSystem[arg[p]].readable
                THEN 0 ELSE 1
         /\ KeyAbsent => (requests[p] = 0 /\ result[p] = DocumentedFallback(op[p]))
         /\ (env = "valid-key" /\ why[p] \notin {"client_error", "file_error", "decode_error"}) =>
              requests[p] = 1

\* A call finds the key removed after an earlier call fell back and a later
\* one succeeded with a valid key.
C16_Witness ==
  \E p \in Threads :
    /\ Done(p) /\ KeyAbsent /\ why[p] = "no_key"
    /\ earlier.fell_back /\ earlier.succeeded /\ last_key = "valid-key"
    /\ key_reads[p] = 1 /\ requests[p] = 0

(***************************************************************************)
(* The upload handler, as its tests and the specification describe it      *)
(***************************************************************************)
\* "Photo uploaded by user"
PHOTO_UPLOADED ==
  <<80, 104, 111, 116, 111, 32, 117, 112, 108, 111, 97, 100, 101, 100, 32,
    98, 121, 32, 117, 115, 101, 114>>

\* Uploads handled in one run of the model.
MaxUploads == 2

\* A nullable text column of the photo table.
NULL == [null |-> TRUE, s |-> <<>>]

Text(s) == [null |-> FALSE, s |-> s]

\* The captions generate_alt_text_from_file can hand to the handler.
Captions ==
  {ALT_FALLBACK} \cup {PostProcessText("generate_alt_text_from_file", t) : t \in Texts}

\* The outcomes of the handler's call: a caption, or an exception.
GeneratorOutcomes ==
  {[kind |-> "raise", value |-> <<>>]}
    \cup {[kind |-> "return", value |-> c] : c \in Captions}

StoredAltTextAsGiven(g) ==
  IF g.kind = "raise" THEN PHOTO_UPLOADED ELSE g.value

\* The alt text the handler stores for an outcome of the generator.
StoredAltText(g) ==
  IF g.kind = "raise" \/ g.value = ALT_FALLBACK THEN PHOTO_UPLOADED ELSE g.value

\* POST /upload: the file is received and saved.
UploadPost ==
  /\ up_pc = "idle"
  /\ Len(photos) < MaxUploads
  /\ up_pc' = "generate"
  /\ up_before' = Len(photos)
  /\ up_gen' = [kind |-> "none", value |-> <<>>]
  /\ up_flash' = "none"
  /\ UNCHANGED <<photos, svars, hvars, cvars>>

\* The single call of generate_alt_text_from_file, with outcome g.
UploadGenerate(g) ==
  /\ up_pc = "generate"
  /\ up_gen' = g
  /\ up_pc' = "save"
  /\ UNCHANGED <<photos, up_flash, up_before, svars, hvars, cvars>>

\* The photo record is persisted and the success message flashed.
UploadSave ==
  /\ up_pc = "save"
  /\ photos' = Append(photos, [description |-> NULL,
                               alt_text |-> Text(StoredAltText(up_gen))])
  /\ up_flash' = "Photo uploaded successfully with AI-generated alt text."
  /\ up_pc' = "done"
  /\ UNCHANGED <<up_gen, up_before, svars, hvars, cvars>>

\* The response is sent; the handler is ready for the next upload.
UploadRespond ==
  /\ up_pc = "done"
  /\ up_pc' = "idle"
  /\ UNCHANGED <<photos, up_gen, up_flash, up_before, svars, hvars, cvars>>

InitUpload ==
  /\ env = "valid-key"
  /\ ServiceIdle
  /\ HistoryInit
  /\ UploadIdle
  /\ CheckIdle

NextUpload ==
  \/ UploadPost
  \/ \E g \in GeneratorOutcomes : UploadGenerate(g)
  \/ UploadSave
  \/ UploadRespond

SpecUpload == InitUpload /\ [][NextUpload]_vars

\* C14: whatever the single call of generate_alt_text_from_file gives (a
\* caption, "Image description not available", an exception), the upload
\* succeeds and persists one photo record, whose alt_text is the caption
\* when it is a genuine one and "Photo uploaded by user" otherwise.
C14_UploadAlwaysSucceeds ==
  up_pc = "done" =>
    /\ up_flash = "Photo uploaded successfully with AI-generated alt text."
    /\ Len(photos) = up_before + 1
    /\ up_gen.kind \in {"return", "raise"}
    /\ ~photos[Len(photos)].alt_text.null
    /\ photos[Len(photos)].alt_text.s =
         IF up_gen.kind = "return" /\ up_gen.value # ALT_FALLBACK
           THEN up_gen.value
           ELSE <<80, 104, 111, 116, 111, 32, 117, 112, 108, 111, 97, 100,
                  101, 100, 32, 98, 121, 32, 117, 115, 101, 114>>

\* A second upload went through although the generator only returned its
\* fallback.
C14_Witness ==
  /\ up_pc = "done" /\ Len(photos) = 2
  /\ up_gen = [kind |-> "return", value |-> ALT_FALLBACK]
  /\ photos[2].alt_text = Text(PHOTO_UPLOADED)

(***************************************************************************)
(* Concurrent invocations                                                  *)
(***************************************************************************)
\* The texts the model answers with while two invocations overlap: blank,
\* short and over the cap, each wrapped in whitespace.
ConcTexts ==
  {Pad(MaxPad) \o Body(n) \o Pad(MaxPad) : n \in {0, MaxShort, MAX_LEN + MaxOver}}

ConcBehaviours ==
  {[kind |-> "raise", text |-> <<>>], [kind |-> "notext", text |-> <<>>]}
    \cup {[kind |-> "text", text |-> t] : t \in ConcTexts}

\* An operation run from its first line to its return with nothing else
\* running: key is the credential, ctor_raises whether genai.Client raises,
\* b what the model does.
RunAlone(o, a, key, ctor_raises, b) ==
  LET cl == get_gemini_client(key, ctor_raises)
      f == IF o \in PathOps THEN OpenFile(a) ELSE [ok |-> TRUE, bytes |-> a]
      failed == ExceptHandler(o).value
  IN  IF o = "generate_alt_text_from_file" /\ ~f.ok THEN failed
      ELSE IF ~cl.ok THEN NoClientReturn(o)
      ELSE IF ~f.ok THEN failed
      ELSE IF ~Decodable(f.bytes) THEN failed
      ELSE IF ServiceAnswer(cl, b).kind # "text" THEN failed
      ELSE PostProcessText(o, ServiceAnswer(cl, b).text)

InitConc ==
  /\ env \in KeyValues
  /\ ServiceIdle
  /\ HistoryInit
  /\ UploadIdle
  /\ CheckIdle

\* Invocations start while others are running; their steps interleave.
NextConc ==
  \/ \E p \in Threads, o \in Ops : \E a \in Args(o) :
       Invoke(p, o, a) /\ UNCHANGED <<hvars, uvars, cvars>>
  \/ \E p \in Threads, c \in BOOLEAN :
       GetClient(p, c) /\ UNCHANGED <<hvars, uvars, cvars>>
  \/ \E p \in Threads : ReadFile(p) /\ UNCHANGED <<hvars, uvars, cvars>>
  \/ \E p \in Threads : ImageOpen(p) /\ UNCHANGED <<hvars, uvars, cvars>>
  \/ \E p \in Threads, b \in ConcBehaviours :
       GenerateContent(p, b) /\ UNCHANGED <<hvars, uvars, cvars>>
  \/ \E p \in Threads : PostProcess(p) /\ UNCHANGED <<hvars, uvars, cvars>>
  \/ \E p \in Threads : Return(p) /\ UNCHANGED <<hvars, uvars, cvars>>
  \/ \E k \in KeyValues : SetEnv(k) /\ UNCHANGED <<hvars, uvars, cvars>>

SpecConc == InitConc /\ [][NextConc]_vars

\* What the model did for the invocation of p, as its local response shows.
Answered(p) ==
  IF response[p].has_text
    THEN [kind |-> "text", text |-> response[p].text]
    ELSE [kind |-> "raise", text |-> <<>>]

\* C15: two invocations that overlap are independent: each has its own
\* client, a step of one leaves the locals of the other and the environment
\* as they were, and each returns what it would return run alone with the
\* same input, credential and model response.
C15_Independent ==
  /\ [](\A p \in Threads :
          Done(p) =>
            /\ outcome[p] = "returned"
            /\ result[p] = RunAlone(op[p], arg[p], env, ~client[p].ok, Answered(p)))
  /\ [][\A q \in Threads :
          /\ (pc'[q] = pc[q]) =>
                /\ op'[q] = op[q] /\ arg'[q] = arg[q] /\ client'[q] = client[q]
                /\ image_data'[q] = image_data[q] /\ response'[q] = response[q]
                /\ result'[q] = result[q] /\ outcome'[q] = outcome[q]
                /\ requests'[q] = requests[q] /\ why'[q] = why[q]
          /\ (pc'[q] # pc[q]) => (env' = env)]_vars

\* One invocation has returned a capped text while the other, a different
\* operation, holds its own, blank, answer.
C15_Witness ==
  /\ Done("t1") /\ why["t1"] = "ok" /\ op["t1"] = "generate_alt_text"
  /\ Len(result["t1"]) = 500
  /\ pc["t2"] = "post" /\ op["t2"] = "generate_sassy_description_from_file"
  /\ response["t2"].has_text /\ response["t2"].text = Pad(MaxPad) \o Pad(MaxPad)

(***************************************************************************)
(* check_photos.py: the report on descriptions and alt texts               *)
(***************************************************************************)
\* "empty-alt-text"
EMPTY_ALT_TEXT ==
  <<101, 109, 112, 116, 121, 45, 97, 108, 116, 45, 116, 101, 120, 116>>

\* ["empty-alt-text", "Image description not available", "Photo uploaded by user"]
DEFAULT_ALT_TEXTS == {EMPTY_ALT_TEXT, ALT_FALLBACK, PHOTO_UPLOADED}

\* Rows of the photo table in one run of check_photos.
MaxRows == 2

\* "Sunset"
A_DESCRIPTION == <<83, 117, 110, 115, 101, 116>>

\* "A red square image"
A_CAPTION ==
  <<65, 32, 114, 101, 100, 32, 115, 113, 117, 97, 114, 101, 32, 105, 109, 97,
    103, 101>>

Descriptions == {NULL, Text(<<32>>), Text(A_DESCRIPTION)}

AltTexts ==
  {NULL, Text(<<>>), Text(<<32>>), Text(EMPTY_ALT_TEXT), Text(ALT_FALLBACK),
   Text(PHOTO_UPLOADED), Text(A_CAPTION)}

PhotoKinds == [description : Descriptions, alt_text : AltTexts]

PhotoTables == UNION {[1..n -> PhotoKinds] : n \in 0..MaxRows}

\* not x or x.strip() == ''
IsBlank(f) == f.null \/ f.s = <<>> \/ Strip(f.s) = <<>>

\* if not photo.description or photo.description.strip() == ''
IsMissingDescription(photo) == IsBlank(photo.description)

\* if not photo.alt_text or photo.alt_text.strip() == ''
IsMissingAltText(photo) == IsBlank(photo.alt_text)

IsDefaultOrBlankAltText(photo) ==
  \/ IsBlank(photo.alt_text)
  \/ photo.alt_text.s \in DEFAULT_ALT_TEXTS

\* if photo.alt_text and photo.alt_text in the three default strings
IsDefaultAltText(photo) ==
  /\ ~photo.alt_text.null
  /\ photo.alt_text.s # <<>>
  /\ \/ photo.alt_text.s = EMPTY_ALT_TEXT
     \/ photo.alt_text.s = ALT_FALLBACK
     \/ photo.alt_text.s = PHOTO_UPLOADED

IsCompleteAnyAltText(photo) ==
  /\ ~IsBlank(photo.description)
  /\ ~IsBlank(photo.alt_text)

\* description and alt text present, alt text not one of the default strings
IsComplete(photo) ==
  /\ ~photo.description.null /\ photo.description.s # <<>>
  /\ Strip(photo.description.s) # <<>>
  /\ ~photo.alt_text.null /\ photo.alt_text.s # <<>>
  /\ Strip(photo.alt_text.s) # <<>>
  /\ photo.alt_text.s \notin DEFAULT_ALT_TEXTS

\* photos = Photo.query.all(); the four lists start empty
CheckStart ==
  /\ cp_pc = "idle"
  /\ cp_pc' = "loop"
  /\ cp_i' = 1
  /\ missing_description' = <<>>
  /\ missing_alt_text' = <<>>
  /\ default_alt_text' = <<>>
  /\ complete_photos' = <<>>
  /\ UNCHANGED <<svars, hvars, uvars>>

\* One turn of `for photo in photos`: the four tests on photos[cp_i].
CheckPhoto ==
  /\ cp_pc = "loop"
  /\ cp_i <= Len(photos)
  /\ LET photo == photos[cp_i] IN
       /\ missing_description' =
            IF IsMissingDescription(photo)
              THEN Append(missing_description, cp_i) ELSE missing_description
       /\ missing_alt_text' =
            IF IsMissingAltText(photo)
              THEN Append(missing_alt_text, cp_i) ELSE missing_alt_text
       /\ default_alt_text' =
            IF IsDefaultAltText(photo)
              THEN Append(default_alt_text, cp_i) ELSE default_alt_text
       /\ complete_photos' =
            IF IsComplete(photo)
              THEN Append(complete_photos, cp_i) ELSE complete_photos
  /\ cp_i' = cp_i + 1
  /\ UNCHANGED <<cp_pc, svars, hvars, uvars>>

\* The loop is over: the results and the summary statistics are printed.
CheckSummary ==
  /\ cp_pc = "loop"
  /\ cp_i > Len(photos)
  /\ cp_pc' = "done"
  /\ UNCHANGED <<cp_i, missing_description, missing_alt_text, default_alt_text,
                 complete_photos, svars, hvars, uvars>>

\* A percentage of the summary, (k / len(photos)) * 100, as a fraction.
Coverage(k) == [num |-> k * 100, den |-> Len(photos)]

desc_coverage == Coverage(Len(photos) - Len(missing_description))

alt_coverage == Coverage(Len(photos) - Len(missing_alt_text))

proper_alt_coverage ==
  Coverage(Len(photos) - Len(missing_alt_text) - Len(default_alt_text))

InitCheck ==
  /\ env = "valid-key"
  /\ ServiceIdle
  /\ HistoryInit
  /\ photos \in PhotoTables
  /\ up_pc = "idle"
  /\ up_gen = [kind |-> "none", value |-> <<>>]
  /\ up_flash = "none"
  /\ up_before = 0
  /\ CheckIdle

NextCheck ==
  \/ CheckStart
  \/ CheckPhoto
  \/ CheckSummary

SpecCheck == InitCheck /\ [][NextCheck]_vars

Range(list) == {list[k] : k \in 1..Len(list)}

\* The photos the loop of check_photos has been through.
Analysed == IF cp_pc = "idle" THEN {} ELSE 1..(cp_i - 1)

\* C18: check_photos puts every photo in at least one of its four lists; a
\* photo in complete_photos is in none of the other three; a photo whose
\* alt_text is "Image description not available" or "Photo uploaded by
\* user" is in default_alt_text and not in complete_photos.
C18_Classification ==
  \A i \in Analysed :
    /\ i \in Range(missing_description) \cup Range(missing_alt_text)
             \cup Range(default_alt_text) \cup Range(complete_photos)
    /\ i \in Range(complete_photos) =>
         i \notin Range(missing_description) \cup Range(missing_alt_text)
                    \cup Range(default_alt_text)
    /\ photos[i].alt_text \in {Text(ALT_FALLBACK), Text(PHOTO_UPLOADED)} =>
         /\ i \in Range(default_alt_text)
         /\ i \notin Range(complete_photos)

\* A described photo with the generator's fallback and a complete one have
\* both been classified.
C18_Witness ==
  /\ cp_pc = "done" /\ Len(photos) = 2
  /\ photos[1] = [description |-> Text(A_DESCRIPTION), alt_text |-> Text(ALT_FALLBACK)]
  /\ photos[2] = [description |-> Text(A_DESCRIPTION), alt_text |-> Text(A_CAPTION)]
  /\ default_alt_text = <<1>> /\ complete_photos = <<2>>

\* C19: no photo is both in missing_alt_text and in default_alt_text, so
\* len(missing_alt_text) + len(default_alt_text) <= total, and for a
\* non-empty table the Proper Alt Text Coverage lies between 0 and 100 and
\* is not above the Alt Text Coverage.
C19_CoverageBounds ==
  /\ Range(missing_alt_text) \cap Range(default_alt_text) = {}
  /\ Len(missing_alt_text) + Len(default_alt_text) <= Len(photos)
  /\ (cp_pc = "done" /\ Len(photos) > 0) =>
       /\ proper_alt_coverage.num >= 0
       /\ proper_alt_coverage.num <= 100 * proper_alt_coverage.den
       /\ proper_alt_coverage.num * alt_coverage.den
            <= alt_coverage.num * proper_alt_coverage.den

\* One photo without alt text and one with a default alt text: the proper
\* coverage is 0 and the alt text coverage 50.
C19_Witness ==
  /\ cp_pc = "done" /\ Len(photos) = 2
  /\ Len(missing_alt_text) = 1 /\ Len(default_alt_text) = 1
  /\ proper_alt_coverage.num = 0
  /\ alt_coverage.num = 100

====
